---- MODULE Spec2Model ----
(***************************************************************************)
(* A model of the T-PAT renderer (tpat2tiff.py): render_tpat, draw_patch,  *)
(* the fills, the overlay compositor and the bit-depth converter.          *)
(*                                                                         *)
(* Encoding of the JSON document:                                          *)
(*   - a descriptor is a record whose DOMAIN is the set of keys present;   *)
(*   - a value that may be a number, a list or the string "parent" is a    *)
(*     record [t |-> "num" | "list" | "str", v |-> sequence of integers];  *)
(*   - a bare-colour child is the record [bare |-> value];                 *)
(*   - a grating spec is [periods |-> <<h>> or <<h1, h2>>, col1, col2];    *)
(*   - an overlay file is given by its decoded content                     *)
(*     [wid, hgt, ch, val, alpha] (a uniform 8-bit picture).               *)
(* A numpy view is a rectangle [y0, y1, x0, x1] of the backing buffer.     *)
(*                                                                         *)
(* The documents rendered have an integer depth (8 or 10 bits), so the     *)
(* buffer is int32; gratings are sampled at whole quarter cycles, where    *)
(* sine and cosine are exactly 0, 1 or -1.  The float32 arithmetic of      *)
(* convert_bits and the binary64 arithmetic of blend_colors are modelled   *)
(* bit for bit.                                                            *)
(***************************************************************************)
EXTENDS Integers, Sequences, FiniteSets, TLC

VARIABLES tpat, pc, image, log, error, rejected, cv

vars == <<tpat, pc, image, log, error, rejected, cv>>

(***************************************************************************)
(* Bounds of the model.                                                    *)
(***************************************************************************)
MaxChildren == 2
MaxAuto == 5
MaxCell == 3
MaxSize == 3
MaxRamp == 11

(***************************************************************************)
(* JSON values.                                                            *)
(***************************************************************************)
Num(n) == [t |-> "num", v |-> <<n>>]
List(l) == [t |-> "list", v |-> l]
ParentStr == [t |-> "str", v |-> <<>>]
None == [t |-> "none", v |-> <<>>]

Has(d, k) == k \in DOMAIN d
HasLen(val) == val.t \in {"list", "str"}
IsNone(val) == val.t = "none"

Max(a, b) == IF a > b THEN a ELSE b
Min(a, b) == IF a < b THEN a ELSE b

as_color(col) == IF HasLen(col) THEN col.v ELSE <<col.v[1], col.v[1], col.v[1]>>

\* as_array keeps anything with a length (the string 'parent' included)
as_array(val) == IF HasLen(val) THEN val ELSE List(<<val.v[1]>>)

(***************************************************************************)
(* numpy / Python indexing.                                                *)
(***************************************************************************)
\* SliceBound without the clamp to the length of the axis
SliceBound_NoClamp(i, n) == IF i < 0 THEN i + n ELSE i

\* a slice bound: negative counts from the end, then clamped to [0, n]
SliceBound(i, n) == IF i < 0 THEN Max(i + n, 0) ELSE Min(i, n)

\* lo..hi sliced by [a:b]; an inverted slice is empty
SliceAxis(lo, hi, a, b) ==
  LET n == hi - lo
      s == SliceBound(a, n)
      e == SliceBound(b, n)
  IN  <<lo + s, lo + Max(s, e)>>

\* view[ya:yb, xa:xb]
SliceView(view, ya, yb, xa, xb) ==
  LET ys == SliceAxis(view.y0, view.y1, ya, yb)
      xs == SliceAxis(view.x0, view.x1, xa, xb)
  IN  [y0 |-> ys[1], y1 |-> ys[2], x0 |-> xs[1], x1 |-> xs[2]]

Height(view) == view.y1 - view.y0
Width(view) == view.x1 - view.x0

\* list[a:b] of a Python list (1-based sequence here)
SliceList(s, a, b) ==
  LET n == Len(s)
      st == SliceBound(a, n)
      en == SliceBound(b, n)
  IN  IF en <= st THEN <<>> ELSE SubSeq(s, st + 1, en)

\* arr[k] of a numpy array: k in -n..n-1, else IndexError
IndexOk(arr, k) == k >= -Len(arr) /\ k < Len(arr)
IndexAt(arr, k) == IF k < 0 THEN arr[k + Len(arr) + 1] ELSE arr[k + 1]

InView(p, view) ==
  /\ p[1] >= view.y0 /\ p[1] < view.y1
  /\ p[2] >= view.x0 /\ p[2] < view.x1

SubView(a, b) ==
  /\ a.y0 >= b.y0 /\ a.y1 <= b.y1
  /\ a.x0 >= b.x0 /\ a.x1 <= b.x1

IsEmpty(view) == view.y1 <= view.y0 \/ view.x1 <= view.x0

Overlap(a, b) ==
  /\ ~IsEmpty(a) /\ ~IsEmpty(b)
  /\ a.x0 < b.x1 /\ b.x0 < a.x1
  /\ a.y0 < b.y1 /\ b.y0 < a.y1

(***************************************************************************)
(* Evaluation order.  Python evaluates an expression once and names the    *)
(* result; a LET definition or an operator argument may be evaluated anew  *)
(* at each use.  Where a value is computed once and used several times,    *)
(* it is bound as the element of a singleton set:                          *)
(*     CHOOSE r \in {F(x) : x \in {e}} : TRUE     is F(e).                   *)
(***************************************************************************)

(***************************************************************************)
(* IEEE-754 binary32 arithmetic, as numpy performs it on float32 arrays.   *)
(* A non-negative float is [k |-> "f32", m, e], the value m * 2^(-e) with  *)
(* m < 2^24; an integer sample is [k |-> "int", m |-> n, e |-> 0].         *)
(* All intermediate values stay below 2^31.                                *)
(***************************************************************************)
MantBits == 24

IntVal(n) == [k |-> "int", m |-> n, e |-> 0]
F32(m, e) == [k |-> "f32", m |-> m, e |-> e]

\* the number of bits of n, 0 <= n < 2^31
BitLen(n) == CHOOSE k \in 0..31 : n < 2^k /\ (k = 0 \/ n >= 2^(k - 1))

\* n / 2^k rounded to the nearest integer, ties to even
RoundShift(n, k) ==
  IF k <= 0 THEN n
  ELSE IF k > 30 THEN 0
  ELSE LET q == n \div (2^k)
           r == n % (2^k)
           h == 2^(k - 1)
       IN  IF r > h \/ (r = h /\ q % 2 = 1) THEN q + 1 ELSE q

\* renormalise after a rounding carry out of the mantissa
Normal(m, e) == IF m = 2^MantBits THEN F32(2^(MantBits - 1), e - 1) ELSE F32(m, e)

\* smallest j >= 0 with x * 2^j >= d   (0 < x <= d < 2^17)
ShiftUp(x, d) == CHOOSE j \in 0..17 : x * (2^j) >= d /\ (j = 0 \/ x * (2^(j - 1)) < d)

\* binary long division: k more quotient bits of r0/d appended to q0
RECURSIVE DivBits(_, _, _, _)
DivBits(r0, d, q0, k) ==
  IF k = 0 THEN <<q0, r0>>
  ELSE CHOOSE res \in
         {IF 2 * r >= d THEN DivBits(2 * r - d, d, 2 * q + 1, k - 1)
          ELSE DivBits(2 * r, d, 2 * q, k - 1) : r \in {r0}, q \in {q0}} : TRUE

\* float32(x) / d for integers 0 <= x <= d < 2^17, round to nearest even
F32DivInt(x, d) ==
  IF x = 0 THEN F32(0, 0)
  ELSE CHOOSE res \in
         {LET q == qr[1]
              r == qr[2]
              up == 2 * r > d \/ (2 * r = d /\ q % 2 = 1)
          IN  Normal(IF up THEN q + 1 ELSE q, MantBits - 1 + j) :
            j \in {ShiftUp(x, d)},
            qr \in {DivBits(x * (2^ShiftUp(x, d)) - d, d, 1, MantBits - 1)}} : TRUE

\* the product hi * 4096 + lo rounded to 24 bits, at exponent e
RoundProduct(hi, lo, e, s) ==
  IF s <= 0 THEN F32(hi * 4096 + lo, e)
  ELSE LET kept == IF s <= 12 THEN hi * (2^(12 - s)) + (lo \div (2^s))
                   ELSE hi \div (2^(s - 12))
           rem == IF s <= 12 THEN lo % (2^s)
                  ELSE (hi % (2^(s - 12))) * 4096 + lo
           h == 2^(s - 1)
           up == rem > h \/ (rem = h /\ kept % 2 = 1)
       IN  Normal(IF up THEN kept + 1 ELSE kept, e - s)

\* f * d for an integer 0 < d < 2^16, the exact product rounded to 24 bits;
\* the product is formed in two 12-bit limbs
F32MulInt(f0, d) ==
  CHOOSE res \in
    {IF f.m = 0 THEN F32(0, 0)
     ELSE CHOOSE r2 \in
            {RoundProduct(hi, lo, f.e,
                          (IF hi > 0 THEN BitLen(hi) + 12 ELSE BitLen(lo)) - MantBits) :
               hi \in {(f.m \div 4096) * d + (((f.m % 4096) * d) \div 4096)},
               lo \in {((f.m % 4096) * d) % 4096}} : TRUE :
       f \in {f0}} : TRUE

\* f + 0.5 for 0 <= f < 2^23
F32AddHalf(f0) ==
  CHOOSE res \in
    {IF f.m = 0 THEN F32(2^(MantBits - 1), MantBits)
     ELSE IF f.e > 31
       THEN F32(2^(MantBits - 1) + RoundShift(f.m, f.e - MantBits), MantBits)
     ELSE CHOOSE r2 \in
            {Normal(RoundShift(sum, BitLen(sum) - MantBits),
                    f.e - Max(BitLen(sum) - MantBits, 0)) :
               sum \in {f.m + 2^(f.e - 1)}} : TRUE :
       f \in {f0}} : TRUE

\* astype(np.int32) of a non-negative float: truncation
F32Trunc(f0) ==
  CHOOSE res \in {IF f.e > 30 THEN 0 ELSE f.m \div (2^(f.e)) : f \in {f0}} : TRUE

(***************************************************************************)
(* convert_bits, applied to one sample.                                    *)
(***************************************************************************)
\* to_float dividing by the number of levels instead of the largest level
to_float_PowerOfTwo(val, from_bits) == F32DivInt(val.m, 2^from_bits)

\* image.astype(np.float32) / (2**from_bits - 1)
to_float(val, from_bits) == F32DivInt(val.m, 2^from_bits - 1)

\* (image * (2**to_bits - 1) + 0.5).astype(np.int32)
from_float(val, to_bits) ==
  IntVal(F32Trunc(F32AddHalf(F32MulInt(val, 2^to_bits - 1))))

RECURSIVE convert_bits(_, _, _)
convert_bits(val, from_bits, to_bits) ==
  IF from_bits = to_bits THEN val
  ELSE IF to_bits = 32 THEN to_float(val, from_bits)
  ELSE IF from_bits = 32 THEN from_float(val, to_bits)
  ELSE convert_bits(convert_bits(val, from_bits, 32), 32, to_bits)

(***************************************************************************)
(* The render state threaded through draw_patch: the backing buffer, the   *)
(* log of the writes and calls made so far, the pending exception and      *)
(* whether overlay_image has rejected a source.                            *)
(***************************************************************************)
Ok(st) == st.err = "none"
Fail(st, e) == [st EXCEPT !.err = e]

Event(kind, node, rect, cell, grid, img) ==
  [kind |-> kind, node |-> node, rect |-> rect, cell |-> cell, grid |-> grid,
   img |-> img]

Logged(st, ev) == [st EXCEPT !.log = Append(st.log, ev)]

\* the pixel coordinates of a view, relative to its corner
Pixels(rect) == (0..(Height(rect) - 1)) \X (0..(Width(rect) - 1))

\* view[...] = colour
Solid(rect, c) == [q \in Pixels(rect) |-> c]

\* view[...] = values: pix[<<y, x>>] is the value for the view's pixel (y, x)
Paint(st0, kind, node, rect0, pix0) ==
  CHOOSE res \in
    {[st EXCEPT
        !.img = [p \in DOMAIN st.img |->
                   IF InView(p, rect) THEN pix[<<p[1] - rect.y0, p[2] - rect.x0>>]
                   ELSE st.img[p]],
        !.log = Append(st.log, Event(kind, node, rect, <<>>, <<>>, <<>>))] :
       st \in {st0}, rect \in {rect0}, pix \in {pix0}} : TRUE

(***************************************************************************)
(* IEEE-754 binary64 arithmetic, as Python performs it on floats, for the  *)
(* values blend_colors meets: non-negative multiples of 2^-60 below 2^30.  *)
(* Such a value is held as six limbs of 15 bits, least significant first;  *)
(* the integer part is in limbs 5 and 6.                                   *)
(***************************************************************************)
DoubleBits == 53

LimbBase == 2^15
LimbIndex == 1..6

\* the integer n, 0 <= n < 2^30
BigInt(n) ==
  [i \in LimbIndex |-> IF i = 5 THEN n % LimbBase ELSE IF i = 6 THEN n \div LimbBase ELSE 0]

\* 2^k units
BigPow2(k) ==
  [i \in LimbIndex |-> IF i - 1 = k \div 15 THEN 2^(k % 15) ELSE 0]

RECURSIVE AddCarry(_, _, _)
AddCarry(a, b, i) ==
  IF i = 0 THEN 0 ELSE (a[i] + b[i] + AddCarry(a, b, i - 1)) \div LimbBase

BigAdd(a, b) ==
  [i \in LimbIndex |-> (a[i] + b[i] + AddCarry(a, b, i - 1)) % LimbBase]

RECURSIVE SubBorrow(_, _, _)
SubBorrow(a, b, i) ==
  IF i = 0 THEN 0
  ELSE IF a[i] - b[i] - SubBorrow(a, b, i - 1) < 0 THEN 1 ELSE 0

\* a - b for a >= b
BigSub(a, b) ==
  [i \in LimbIndex |-> (a[i] - b[i] - SubBorrow(a, b, i - 1) + LimbBase) % LimbBase]

RECURSIVE MulCarry(_, _, _)
MulCarry(a, d, i) ==
  IF i = 0 THEN 0 ELSE (a[i] * d + MulCarry(a, d, i - 1)) \div LimbBase

\* a * d for an integer 0 <= d < 2^15
BigMul(a, d) ==
  [i \in LimbIndex |-> (a[i] * d + MulCarry(a, d, i - 1)) % LimbBase]

\* the number of bits of a
BigLen(a) ==
  LET used == {i \in LimbIndex : a[i] # 0}
  IN  IF used = {} THEN 0
      ELSE LET top == CHOOSE i \in used : \A j \in used : j <= i
           IN  15 * (top - 1) + BitLen(a[top])

\* a mod 2^k
BigLow(a, k) ==
  [i \in LimbIndex |->
     IF 15 * i <= k THEN a[i]
     ELSE IF 15 * (i - 1) >= k THEN 0
     ELSE a[i] % (2^(k - 15 * (i - 1)))]

\* bit k of a
BigBit(a, k) == (a[k \div 15 + 1] \div (2^(k % 15))) % 2

BigLess(a, b) ==
  \E i \in LimbIndex : a[i] < b[i] /\ \A j \in LimbIndex : j > i => a[j] = b[j]

\* a, with `sticky` telling that the exact value is a little above a,
\* rounded to 53 significant bits, ties to even
F64Round(a0, sticky) ==
  CHOOSE res \in
    {IF BigLen(a) <= DoubleBits THEN a
     ELSE CHOOSE r2 \in
            {IF \/ BigLess(BigPow2(k - 1), low)
                \/ (low = BigPow2(k - 1) /\ (sticky \/ BigBit(a, k) = 1))
               THEN BigAdd(BigSub(a, low), BigPow2(k))
               ELSE BigSub(a, low) :
               k \in {BigLen(a) - DoubleBits},
               low \in {BigLow(a, BigLen(a) - DoubleBits)}} : TRUE :
       a \in {a0}} : TRUE

\* the remainder of x * 2^60 / n after the quotient limbs 6 down to i
RECURSIVE DivRem(_, _, _)
DivRem(x, n, i) ==
  IF i > 6 THEN 0
  ELSE (DivRem(x, n, i + 1) * LimbBase + (IF i = 5 THEN x ELSE 0)) % n

\* x / n for integers 0 <= x <= n, 0 < n <= 128: one rounding
F64Div(x, n) ==
  F64Round([i \in LimbIndex |->
              (DivRem(x, n, i + 1) * LimbBase + (IF i = 5 THEN x ELSE 0)) \div n],
           DivRem(x, n, 1) # 0)

\* int(c1 + t * (c2 - c1) + 0.5) for colours 0 <= c1, c2 < 2^15 and 0 <= t <= 1:
\* a rounding after the product and after each sum, then truncation
BlendChannel(c1, c2, t) ==
  CHOOSE res \in
    {CHOOSE r2 \in
       {CHOOSE r3 \in
          {s[5] + s[6] * LimbBase : s \in {F64Round(BigAdd(sum, BigPow2(59)), FALSE)}} :
          TRUE :
          sum \in {F64Round(IF c2 >= c1 THEN BigAdd(BigInt(c1), p)
                            ELSE BigSub(BigInt(c1), p), FALSE)}} : TRUE :
       p \in {F64Round(BigMul(t, IF c2 >= c1 THEN c2 - c1 ELSE c1 - c2), FALSE)}} : TRUE

(***************************************************************************)
(* Fills.                                                                  *)
(***************************************************************************)
\* blend_colors in integer mode with t = tn / td as Python divides it:
\* [int(c1 + t * (c2 - c1) + 0.5) for c1, c2 in zip(...)]
blend_colors(col1, col2, tn, td) ==
  CHOOSE res \in
    {[i \in 1..3 |-> BlendChannel(a[i], b[i], t)] :
       a \in {as_color(col1)}, b \in {as_color(col2)}, t \in {F64Div(tn, td)}} : TRUE

\* horizontal_ramp painting a view one pixel wide with the first colour
\* instead of dividing by zero
horizontal_ramp_SinglePixel(st, node, rect, col1, col2) ==
  IF Width(rect) <= 0 THEN st
  ELSE Paint(st, "fill", node, rect,
             [q \in Pixels(rect) |->
                blend_colors(col1, col2, q[2], Max(Width(rect) - 1, 1))])

horizontal_ramp(st, node, rect, col1, col2) ==
  IF Width(rect) = 1 THEN Fail(st, "ZeroDivisionError")
  ELSE IF Width(rect) <= 0 THEN st
  ELSE Paint(st, "fill", node, rect,
             [q \in Pixels(rect) |->
                blend_colors(col1, col2, q[2], Width(rect) - 1)])

vertical_ramp(st, node, rect, col1, col2) ==
  IF Height(rect) = 1 THEN Fail(st, "ZeroDivisionError")
  ELSE IF Height(rect) <= 0 THEN st
  ELSE Paint(st, "fill", node, rect,
             [q \in Pixels(rect) |->
                blend_colors(col1, col2, q[1], Height(rect) - 1)])

\* phase in half-cycles as the rational pn/pd
square_wave(col1, col2, pn, pd) ==
  IF pn % (2 * pd) < pd THEN as_color(col1) ELSE as_color(col2)

\* sin and cos of q quarter turns
SinQ(q) == IF q % 4 = 1 THEN 1 ELSE IF q % 4 = 3 THEN -1 ELSE 0
CosQ(q) == IF q % 4 = 0 THEN 1 ELSE IF q % 4 = 2 THEN -1 ELSE 0

\* the phases of the model are whole quarter cycles (2*pn divisible by pd)
sine_wave(col1, col2, pn, pd) ==
  blend_colors(col1, col2, 1 - SinQ((2 * pn) \div pd), 2)

cosine_wave(col1, col2, pn, pd) ==
  blend_colors(col1, col2, 1 - CosQ((2 * pn) \div pd), 2)

Wave(func, col1, col2, pn, pd) ==
  IF func = "square" THEN square_wave(col1, col2, pn, pd)
  ELSE IF func = "sine" THEN sine_wave(col1, col2, pn, pd)
  ELSE cosine_wave(col1, col2, pn, pd)

\* the waveform the grating uses: forced to square only for [1, col1, col2]
GratingFunc(func, g) ==
  IF Len(g.periods) = 1 /\ g.periods[1] = 1 THEN "square" ELSE func

\* f1*i + 0.5*a*i*i with f1 = 1/h1, f2 = 1/h2, a = (f2 - f1)/(n - 1),
\* as the rational <<numerator, denominator>>
GratingPhase(g, i, n) ==
  LET h1 == g.periods[1]
      h2 == IF Len(g.periods) = 1 THEN g.periods[1] ELSE g.periods[2]
  IN  <<2 * h2 * (n - 1) * i + (h1 - h2) * i * i, 2 * h1 * h2 * (n - 1)>>

horizontal_grating(st, node, rect, func, g) ==
  IF Width(rect) = 1 THEN Fail(st, "ZeroDivisionError")
  ELSE IF Width(rect) <= 0 THEN st
  ELSE Paint(st, "fill", node, rect,
             [q \in Pixels(rect) |->
                LET ph == GratingPhase(g, q[2], Width(rect))
                IN  Wave(GratingFunc(func, g), g.col1, g.col2, ph[1], ph[2])])

vertical_grating(st, node, rect, func, g) ==
  IF Height(rect) = 1 THEN Fail(st, "ZeroDivisionError")
  ELSE IF Height(rect) <= 0 THEN st
  ELSE Paint(st, "fill", node, rect,
             [q \in Pixels(rect) |->
                LET ph == GratingPhase(g, q[1], Height(rect))
                IN  Wave(GratingFunc(func, g), g.col1, g.col2, ph[1], ph[2])])

\* FillKey with the two ramps tested in the other order
FillKey_VrampFirst(tp) ==
  IF Has(tp, "color") THEN "color"
  ELSE IF Has(tp, "vramp") THEN "vramp"
  ELSE IF Has(tp, "hramp") THEN "hramp"
  ELSE IF Has(tp, "hsine") THEN "hsine"
  ELSE IF Has(tp, "vsine") THEN "vsine"
  ELSE IF Has(tp, "hcosine") THEN "hcosine"
  ELSE IF Has(tp, "vcosine") THEN "vcosine"
  ELSE IF Has(tp, "hsquare") THEN "hsquare"
  ELSE IF Has(tp, "vsquare") THEN "vsquare"
  ELSE ""

\* the if/elif chain of draw_patch: the fill key that is painted, "" if none
FillKey(tp) ==
  IF Has(tp, "color") THEN "color"
  ELSE IF Has(tp, "hramp") THEN "hramp"
  ELSE IF Has(tp, "vramp") THEN "vramp"
  ELSE IF Has(tp, "hsine") THEN "hsine"
  ELSE IF Has(tp, "vsine") THEN "vsine"
  ELSE IF Has(tp, "hcosine") THEN "hcosine"
  ELSE IF Has(tp, "vcosine") THEN "vcosine"
  ELSE IF Has(tp, "hsquare") THEN "hsquare"
  ELSE IF Has(tp, "vsquare") THEN "vsquare"
  ELSE ""

\* lines 360-378
DrawFill(st, node, rect, tp) ==
  LET key == FillKey(tp)
  IN  IF key = "color"
        THEN Paint(st, "fill", node, rect, Solid(rect, as_color(tp.color)))
      ELSE IF key = "hramp"
        THEN horizontal_ramp(st, node, rect, tp.hramp[1], tp.hramp[2])
      ELSE IF key = "vramp"
        THEN vertical_ramp(st, node, rect, tp.vramp[1], tp.vramp[2])
      ELSE IF key = "hsine" THEN horizontal_grating(st, node, rect, "sine", tp.hsine)
      ELSE IF key = "vsine" THEN vertical_grating(st, node, rect, "sine", tp.vsine)
      ELSE IF key = "hcosine"
        THEN horizontal_grating(st, node, rect, "cosine", tp.hcosine)
      ELSE IF key = "vcosine"
        THEN vertical_grating(st, node, rect, "cosine", tp.vcosine)
      ELSE IF key = "hsquare"
        THEN horizontal_grating(st, node, rect, "square", tp.hsquare)
      ELSE IF key = "vsquare"
        THEN vertical_grating(st, node, rect, "square", tp.vsquare)
      ELSE st

(***************************************************************************)
(* Border, spacing and grid geometry.                                      *)
(***************************************************************************)
\* border = [vertical, horizontal] or one number for both
border_settings(tp) ==
  [hborder |-> IF ~Has(tp, "border") THEN 0
               ELSE IF HasLen(tp.border) THEN tp.border.v[2] ELSE tp.border.v[1],
   vborder |-> IF ~Has(tp, "border") THEN 0 ELSE tp.border.v[1],
   border_color |-> IF Has(tp, "bordercolor") THEN List(as_color(tp.bordercolor))
                    ELSE None]

spacing_settings(tp, default_hspacing, default_vspacing) ==
  IF Has(tp, "spacing")
    THEN [hspacing |-> IF HasLen(tp.spacing) THEN tp.spacing.v[2] ELSE tp.spacing.v[1],
          vspacing |-> tp.spacing.v[1]]
    ELSE [hspacing |-> IF IsNone(default_hspacing) THEN 0 ELSE default_hspacing.v[1],
          vspacing |-> IF IsNone(default_vspacing) THEN 0 ELSE default_vspacing.v[1]]

\* [b for a in sizes for b in [a, spacing]]
Interleave(sizes, spacing) ==
  [k \in 1..(2 * Len(sizes)) |-> IF k % 2 = 1 THEN sizes[(k + 1) \div 2] ELSE spacing]

\* np.cumsum: the running sums s[1], s[1] + s[2], ...
RECURSIVE CumSumAt(_, _)
CumSumAt(s, k) == IF k = 0 THEN 0 ELSE CumSumAt(s, k - 1) + s[k]

CumSum(s) == [k \in 1..Len(s) |-> CumSumAt(s, k)]

\* np.cumsum([0] + x[:-1]) for x the interleaved sizes and spacings
Offsets(sizes, spacing) ==
  CumSum(<<0>> \o SliceList(Interleave(sizes, spacing), 0, -1))

\* the grid tags of draw_patch line 380
HasGrid(tp) ==
  Has(tp, "columns") \/ Has(tp, "rows") \/ Has(tp, "width") \/ Has(tp, "height")

\* lines 390-402: the column widths and the default horizontal spacing
ResolveColumns(tp, inner_width, parent_columns, parent_hspacing) ==
  IF Has(tp, "columns")
    THEN IF tp.columns.t = "str"
           THEN [sizes |-> parent_columns, spacing |-> parent_hspacing]
           ELSE [sizes |-> as_array(tp.columns), spacing |-> None]
  ELSE IF Has(tp, "width")
    THEN IF tp.width.t = "str"
           THEN [sizes |-> parent_columns, spacing |-> parent_hspacing]
           ELSE [sizes |-> as_array(tp.width), spacing |-> None]
  ELSE [sizes |-> List(<<inner_width>>), spacing |-> None]

\* lines 404-416: the row heights and the default vertical spacing
ResolveRows(tp, inner_height, parent_rows, parent_vspacing) ==
  IF Has(tp, "rows")
    THEN IF tp.rows.t = "str"
           THEN [sizes |-> parent_rows, spacing |-> parent_vspacing]
           ELSE [sizes |-> as_array(tp.rows), spacing |-> None]
  ELSE IF Has(tp, "height")
    THEN IF tp.height.t = "str"
           THEN [sizes |-> parent_rows, spacing |-> parent_vspacing]
           ELSE [sizes |-> as_array(tp.height), spacing |-> None]
  ELSE [sizes |-> List(<<inner_height>>), spacing |-> None]

(***************************************************************************)
(* overlay_image.  The blend dest*(1-a) + (rgb or a*rgb) is modelled for   *)
(* alpha 0 and alpha 255, where a is exactly 0.0 or 1.0; a premultiplied   *)
(* source with alpha 0 has colour 0.                                       *)
(***************************************************************************)
\* OverlayRect rounding the centring offset up instead of down
OverlayRect_RoundUp(view, comp) ==
  LET x == (Width(view) - comp.wid + 1) \div 2
      y == (Height(view) - comp.hgt + 1) \div 2
  IN  SliceView(view, y, y + comp.hgt, x, x + comp.wid)

\* lines 301-306: the centred destination area
OverlayRect(view, comp) ==
  LET x == (Width(view) - comp.wid) \div 2
      y == (Height(view) - comp.hgt) \div 2
  IN  SliceView(view, y, y + comp.hgt, x, x + comp.wid)

\* TooLarge refusing only a source that exceeds the view on both axes
TooLarge_BothAxes(view, comp) == comp.wid > Width(view) /\ comp.hgt > Height(view)

\* line 298
TooLarge(view, comp) == comp.wid > Width(view) \/ comp.hgt > Height(view)

\* line 322, for alpha 0.0 or 1.0
AlphaBlend(dest, rgb, alpha) == IF alpha = 255 THEN rgb ELSE dest

\* lines 309-323: the values written to the destination area r
OverlayPixels(img, r, comp, bits) ==
  IF comp.ch = 3
    THEN CHOOSE res \in
           {Solid(r, <<c, c, c>>) : c \in {convert_bits(IntVal(comp.val), 8, bits).m}} :
           TRUE
    ELSE CHOOSE res \in
           {[q \in Pixels(r) |->
               [i \in 1..3 |->
                  convert_bits(
                    AlphaBlend(
                      convert_bits(IntVal(img[<<r.y0 + q[1], r.x0 + q[2]>>][i]),
                                   bits, 32),
                      rgb, comp.alpha),
                    32, bits).m]] :
              rgb \in {convert_bits(IntVal(comp.val), 8, 32)}} : TRUE

overlay_image(st0, node, view0, tp, bits) ==
  CHOOSE res \in
    {IF ~Ok(st) \/ ~Has(tp, "image") THEN st
     ELSE IF TooLarge(view, tp.image)
       THEN [Fail(Logged(st, Event("overlay_image", node, view,
                                   <<tp.image.wid, tp.image.hgt>>, <<>>, st.img)),
                  "ValueError") EXCEPT !.rej = TRUE]
     ELSE Paint(Logged(st, Event("overlay_image", node, view,
                                 <<tp.image.wid, tp.image.hgt>>, <<>>, st.img)),
                "overlay", node, OverlayRect(view, tp.image),
                OverlayPixels(st.img, OverlayRect(view, tp.image), tp.image, bits)) :
       st \in {st0}, view \in {view0}} : TRUE

(***************************************************************************)
(* draw_patch.                                                             *)
(***************************************************************************)
\* lines 350-355: the four border strips, painted on the full view
DrawBorders(st, node, view, bs) ==
  IF IsNone(bs.border_color) THEN st
  ELSE LET h == Height(view)
           w == Width(view)
           c == bs.border_color.v
           left == SliceView(view, 0, h, 0, bs.hborder)
           right == SliceView(view, 0, h, w - bs.hborder, w)
           top == SliceView(view, 0, bs.vborder, 0, w)
           bottom == SliceView(view, h - bs.vborder, h, 0, w)
       IN  Paint(Paint(Paint(Paint(st, "border", node, left, Solid(left, c)),
                             "border", node, right, Solid(right, c)),
                       "border", node, top, Solid(top, c)),
                 "border", node, bottom, Solid(bottom, c))

\* line 358: image[vborder:height - vborder, hborder:width - hborder]
InnerView(view, bs) ==
  SliceView(view, bs.vborder, Height(view) - bs.vborder,
            bs.hborder, Width(view) - bs.hborder)

\* lines 430-431: for i in range(2, len(x), 2): rect[:, x[i - 1]:x[i]] = color
RECURSIVE SpacingColumns(_, _, _, _, _, _)
SpacingColumns(st, node, rect, x, color, i) ==
  IF i >= Len(x) THEN st
  ELSE LET strip == SliceView(rect, 0, Height(rect),
                              IndexAt(x, i - 1), IndexAt(x, i))
       IN  SpacingColumns(Paint(st, "spacing", node, strip, Solid(strip, color)),
                          node, rect, x, color, i + 2)

\* lines 432-433: for i in range(2, len(y), 2): rect[y[i - 1]:y[i], :] = color
RECURSIVE SpacingRows(_, _, _, _, _, _)
SpacingRows(st, node, rect, y, color, i) ==
  IF i >= Len(y) THEN st
  ELSE LET strip == SliceView(rect, IndexAt(y, i - 1), IndexAt(y, i),
                              0, Width(rect))
       IN  SpacingRows(Paint(st, "spacing", node, strip, Solid(strip, color)),
                       node, rect, y, color, i + 2)

\* lines 428-433: the spacing is overpainted when a border colour is set
DrawSpacing(st, node, g, bs) ==
  IF IsNone(bs.border_color) THEN st
  ELSE SpacingRows(SpacingColumns(st, node, g.rect, g.x, bs.border_color.v, 2),
                   node, g.rect, g.y, bs.border_color.v, 2)

\* lines 447-465: the explicit placement of a child over the running cursor
Place(p, cur) ==
  IF Has(p, "bare") THEN cur
  ELSE LET left1 == IF Has(p, "left") THEN p.left ELSE cur.left
           top1 == IF Has(p, "top") THEN p.top ELSE cur.top
           wid1 == IF Has(p, "right") THEN p.right - left1 ELSE cur.wid
           hgt1 == IF Has(p, "bottom") THEN p.bottom - top1 ELSE cur.hgt
       IN  IF Has(p, "cell")
             THEN LET top2 == p.cell[1] - 1
                      left2 == p.cell[2] - 1
                  IN  IF Len(p.cell) = 4
                        THEN [left |-> left2, top |-> top2,
                              wid |-> p.cell[4] - left2, hgt |-> p.cell[3] - top2]
                        ELSE [left |-> left2, top |-> top2, wid |-> 1, hgt |-> 1]
             ELSE [left |-> left1, top |-> top1, wid |-> wid1, hgt |-> hgt1]

\* lines 468-469: the indices into the offset arrays are all in range
PlaceOk(g, c) ==
  /\ IndexOk(g.y, c.top * 2)
  /\ IndexOk(g.y, (c.top + c.hgt) * 2 - 1)
  /\ IndexOk(g.x, c.left * 2)
  /\ IndexOk(g.x, (c.left + c.wid) * 2 - 1)

\* SubPatch with the right edge taken one offset too far: it includes the
\* spacing after the last spanned column
SubPatch_TrailingSpacing(g, c) ==
  SliceView(g.rect,
            IndexAt(g.y, c.top * 2), IndexAt(g.y, (c.top + c.hgt) * 2 - 1),
            IndexAt(g.x, c.left * 2),
            IndexAt(g.x, (c.left + c.wid) * 2 - 1) + g.hspacing)

\* lines 468-469: the child's rectangle in pixels
SubPatch(g, c) ==
  SliceView(g.rect,
            IndexAt(g.y, c.top * 2), IndexAt(g.y, (c.top + c.hgt) * 2 - 1),
            IndexAt(g.x, c.left * 2), IndexAt(g.x, (c.left + c.wid) * 2 - 1))

\* Advance wrapping only when the cursor itself has left the grid
Advance_LateWrap(g, c) ==
  LET left1 == c.left + c.wid
  IN  IF left1 > Len(g.widths)
        THEN [c EXCEPT !.left = 0, !.top = c.top + c.hgt]
        ELSE [c EXCEPT !.left = left1]

\* lines 479-486: the cursor for the next child
Advance(g, c) ==
  LET left1 == c.left + c.wid
  IN  IF left1 + c.wid > Len(g.widths)
        THEN [c EXCEPT !.left = 0, !.top = c.top + c.hgt]
        ELSE [c EXCEPT !.left = left1]

Children(tp) == IF Has(tp, "patches") THEN tp.patches ELSE tp.subpatches

CellOf(c) == <<c.left, c.top, c.wid, c.hgt>>

\* ParentContext handing down the whole grid instead of the spanned cells
ParentContext_WholeGrid(g, c) ==
  [columns |-> List(g.widths),
   rows |-> List(g.heights),
   hspacing |-> Num(g.hspacing),
   vspacing |-> Num(g.vspacing)]

\* lines 473-474: what a nested descriptor may inherit
ParentContext(g, c) ==
  [columns |-> List(SliceList(g.widths, c.left, c.left + c.wid)),
   rows |-> List(SliceList(g.heights, c.top, c.top + c.hgt)),
   hspacing |-> Num(g.hspacing),
   vspacing |-> Num(g.vspacing)]

RECURSIVE draw_patch(_, _, _, _, _, _)
RECURSIVE DrawChildren(_, _, _, _, _, _, _)

\* lines 467-477: one sub-patch, a nested descriptor or a bare colour
DrawChild(st, child, bits, p, g, c) ==
  CHOOSE res \in
    {IF Has(p, "bare")
       THEN Paint(Logged(st, Event("child", child, subpatch, CellOf(c), g, st.img)),
                  "bare", child, subpatch, Solid(subpatch, as_color(p.bare)))
       ELSE draw_patch(Logged(st, Event("child", child, subpatch, CellOf(c), g,
                                        st.img)),
                       child, subpatch, bits, p, ParentContext(g, c)) :
       subpatch \in {SubPatch(g, c)}} : TRUE

\* the sub-patch has returned: its cursor for the next one is noted
ChildDone(st0, child, subpatch, nxt) ==
  CHOOSE res \in
    {IF Ok(st)
       THEN Logged(st, Event("done", child, subpatch, CellOf(nxt), <<>>, st.img))
       ELSE st : st \in {st0}} : TRUE

\* lines 445-486: the loop over the sub-patches, from child k on
DrawChildren(st0, node, bits, kids, g, cur0, k) ==
  CHOOSE res \in
    {IF ~Ok(st) \/ k > Len(kids) THEN st
     ELSE IF ~PlaceOk(g, Place(kids[k], cur)) THEN Fail(st, "IndexError")
     ELSE CHOOSE r2 \in
            {DrawChildren(
               ChildDone(DrawChild(st, Append(node, k), bits, kids[k], g, c),
                         Append(node, k), SubPatch(g, c), Advance(g, c)),
               node, bits, kids, g, Advance(g, c), k + 1) :
               c \in {Place(kids[k], cur)}} : TRUE :
       st \in {st0}, cur \in {cur0}} : TRUE

\* DrawSubPatches compositing the overlay before the sub-patches are drawn
DrawSubPatches_OverlayFirst(st, node, bits, tp, g) ==
  IF ~Has(tp, "patches") /\ ~Has(tp, "subpatches")
    THEN overlay_image(st, node, g.rect, tp, bits)
  ELSE DrawChildren(overlay_image(st, node, g.rect, tp, bits), node, bits,
                    Children(tp), g, [left |-> 0, top |-> 0, wid |-> 1, hgt |-> 1], 1)

\* lines 435-489: the sub-patches, then the overlay on top
DrawSubPatches(st, node, bits, tp, g) ==
  IF ~Has(tp, "patches") /\ ~Has(tp, "subpatches")
    THEN overlay_image(st, node, g.rect, tp, bits)
  ELSE overlay_image(
         DrawChildren(st, node, bits, Children(tp), g,
                      [left |-> 0, top |-> 0, wid |-> 1, hgt |-> 1], 1),
         node, g.rect, tp, bits)

\* lines 384-426: the grid of the patch
Grid(tp, view, rect, bs, parent) ==
  LET cols == ResolveColumns(tp, Width(view) - 2 * bs.hborder,
                             parent.columns, parent.hspacing)
      rows == ResolveRows(tp, Height(view) - 2 * bs.vborder,
                          parent.rows, parent.vspacing)
      sp == spacing_settings(tp, cols.spacing, rows.spacing)
  IN  IF cols.sizes.t # "list" \/ rows.sizes.t # "list"
        THEN [ok |-> FALSE]
      ELSE [ok |-> TRUE, rect |-> rect,
            widths |-> cols.sizes.v, heights |-> rows.sizes.v,
            x |-> Offsets(cols.sizes.v, sp.hspacing),
            y |-> Offsets(rows.sizes.v, sp.vspacing),
            hspacing |-> sp.hspacing, vspacing |-> sp.vspacing]

\* lines 380-489: what follows the fill
DrawGrid(st0, node, view, rect, bits, tp, bs, parent) ==
  CHOOSE res \in
    {IF ~Ok(st) THEN st
     ELSE IF ~HasGrid(tp) THEN overlay_image(st, node, rect, tp, bits)
     ELSE IF ~g.ok THEN Fail(st, "TypeError")
     ELSE DrawSubPatches(DrawSpacing(st, node, g, bs), node, bits, tp, g) :
       st \in {st0}, g \in {IF HasGrid(tp) THEN Grid(tp, view, rect, bs, parent)
                            ELSE [ok |-> FALSE]}} : TRUE

draw_patch(st0, node, view0, bits, tp, parent0) ==
  CHOOSE res \in
    {IF ~Ok(st) THEN st
     ELSE CHOOSE r2 \in
            {DrawGrid(DrawFill(DrawBorders(st, node, view, bs), node, rect, tp),
                      node, view, rect, bits, tp, bs, parent) :
               bs \in {border_settings(tp)},
               rect \in {InnerView(view, border_settings(tp))}} : TRUE :
       st \in {st0}, view \in {view0}, parent \in {parent0}} : TRUE

(***************************************************************************)
(* render_tpat.                                                            *)
(***************************************************************************)
\* Extent counting one spacing per cell instead of one between cells
Extent_SpacingPerCell(sizes, border, spacing) ==
  CumSumAt(sizes, Len(sizes)) + 2 * border + Len(sizes) * spacing

\* lines 564-567: the extent of one axis of the root buffer
Extent(sizes, border, spacing) ==
  CumSumAt(sizes, Len(sizes)) + 2 * border + (Len(sizes) - 1) * spacing

\* lines 570-577: a declared total that differs from the computed one
Mismatch(tp, total, sizes, computed) ==
  /\ Has(tp, total) /\ Has(tp, sizes)
  /\ (tp[total].t # "num" \/ tp[total].v[1] # computed)

Zeros(height, width) ==
  [p \in (0..(height - 1)) \X (0..(width - 1)) |-> <<0, 0, 0>>]

NoParent == [columns |-> None, rows |-> None, hspacing |-> None, vspacing |-> None]

Raised(e) ==
  [pc |-> "raised", image |-> <<>>, log |-> <<>>, error |-> e, rejected |-> FALSE]

\* line 585 or the exception that left draw_patch
Outcome(st0) ==
  CHOOSE res \in
    {[pc |-> IF Ok(st) THEN "returned" ELSE "raised",
      image |-> st.img, log |-> st.log, error |-> st.err, rejected |-> st.rej] :
       st \in {st0}} : TRUE

render_tpat(tp) ==
  IF Has(tp, "version") /\ tp.version > 2 THEN Raised("ValueError")
  ELSE
  LET bs == border_settings(tp)
      sp == spacing_settings(tp, None, None)
      widths == as_array(IF Has(tp, "columns") THEN tp.columns ELSE tp.width)
      heights == as_array(IF Has(tp, "rows") THEN tp.rows ELSE tp.height)
  IN  IF widths.t # "list" \/ heights.t # "list" THEN Raised("TypeError")
      ELSE
      LET width == Extent(widths.v, bs.hborder, sp.hspacing)
          height == Extent(heights.v, bs.vborder, sp.vspacing)
      IN  IF Mismatch(tp, "width", "columns", width)
             \/ Mismatch(tp, "height", "rows", height)
            THEN Raised("ValueError")
          ELSE Outcome(draw_patch([img |-> Zeros(height, width), log |-> <<>>,
                                   err |-> "none", rej |-> FALSE],
                                  <<>>,
                                  [y0 |-> 0, y1 |-> height, x0 |-> 0, x1 |-> width],
                                  tp.depth, tp, NoParent))

(***************************************************************************)
(* The documents the model renders.                                        *)
(***************************************************************************)
SeqsUpTo(S, n) == UNION {[1..k -> S] : k \in 0..n}

Absent == <<>>

Root == [depth |-> 8]

\* children without any placement key: bare colours and plain descriptors
AutoKid == {[bare |-> Num(50)], [color |-> Num(60)]}

AutoDocs ==
  {Root @@ [columns |-> List(cs), rows |-> List(rs), patches |-> kids] @@ sp :
     cs \in {<<1>>, <<1, 1>>, <<1, 2, 1>>},
     rs \in {<<1, 1>>, <<1, 1, 1, 1, 1>>},
     sp \in {Absent, [spacing |-> Num(1)]},
     kids \in SeqsUpTo(AutoKid, MaxAuto)}

\* children with explicit placements: 1-indexed cells (column 0 included),
\* cells with a span, and left/top/right/bottom
PlaceKid ==
  {[bare |-> Num(50)], [color |-> Num(60)], [color |-> Num(70), cell |-> <<2, 1>>]}
  \cup {[color |-> Num(70), cell |-> <<1, c>>] : c \in 0..MaxCell}
  \cup {[color |-> Num(80), cell |-> <<1, 1, 2, c>>] : c \in 2..MaxCell}
  \cup {[color |-> Num(90)] @@ pl :
          pl \in {[left |-> 1], [left |-> 0, right |-> 2],
                  [top |-> 0, bottom |-> 2], [left |-> 1, right |-> 3]}}

PlaceDocs ==
  {Root @@ [columns |-> List(cs), rows |-> List(<<1, 2>>), patches |-> kids] @@ sp :
     cs \in {<<2, 1>>, <<1, 2, 1>>},
     sp \in {Absent, [spacing |-> Num(1)], [spacing |-> List(<<0, 2>>)]},
     kids \in SeqsUpTo(PlaceKid, MaxChildren)}

\* an overlay file, by its decoded content
Picture(w, h, ch, alpha) ==
  [wid |-> w, hgt |-> h, ch |-> ch, val |-> 200, alpha |-> alpha]

\* one nested descriptor under a root grid: inherited, explicit, overflowing
\* or absent grid, with and without border, spacing, fill, children, overlay
NestGrid ==
  {Absent, [columns |-> ParentStr], [width |-> ParentStr, height |-> ParentStr],
   [columns |-> List(<<1, 1>>)], [columns |-> Num(3)], [rows |-> List(<<1, 1>>)]}

NestBorder ==
  {Absent, [border |-> Num(1), bordercolor |-> Num(5)], [bordercolor |-> Num(5)]}

NestKids ==
  {Absent, [patches |-> <<[bare |-> Num(50)], [bare |-> Num(51)]>>],
   [patches |-> <<[color |-> Num(70), image |-> Picture(1, 1, 3, 255)]>>]}

NestOverlay ==
  {Absent, [image |-> Picture(1, 1, 3, 255)], [image |-> Picture(3, 3, 3, 255)]}

NestPlace == {Absent, [cell |-> <<1, 1, 1, 2>>], [cell |-> <<1, 1, 2, 2>>]}

Nested ==
  {pl @@ gr @@ bo @@ sp @@ fi @@ ki @@ ov :
     pl \in NestPlace, gr \in NestGrid, bo \in NestBorder,
     sp \in {Absent, [spacing |-> Num(1)]},
     fi \in {Absent, [color |-> Num(60)]},
     ki \in NestKids, ov \in NestOverlay}

NestDocs ==
  {Root @@ [columns |-> List(<<1, 2>>), rows |-> List(<<2, 1>>),
            color |-> Num(20), patches |-> <<inner>>] @@ sp :
     inner \in Nested, sp \in {Absent, [spacing |-> Num(1)]}}

\* one value for each fill key
FillKeys ==
  <<"color", "hramp", "vramp", "hsine", "vsine", "hcosine", "vcosine",
    "hsquare", "vsquare">>

Grating(periods, c1, c2) == [periods |-> periods, col1 |-> c1, col2 |-> c2]

FillVal ==
  [color |-> Num(10),
   hramp |-> <<Num(0), Num(30)>>,
   vramp |-> <<Num(0), Num(40)>>,
   hsine |-> Grating(<<2>>, Num(0), Num(100)),
   vsine |-> Grating(<<2>>, Num(0), Num(120)),
   hcosine |-> Grating(<<2>>, Num(0), Num(140)),
   vcosine |-> Grating(<<2>>, Num(0), Num(160)),
   hsquare |-> Grating(<<2>>, Num(0), Num(180)),
   vsquare |-> Grating(<<2>>, Num(0), Num(200))]

FillOf(S) == [k \in S |-> FillVal[k]]

Range(f) == {f[i] : i \in DOMAIN f}

\* a single cell of every size with every subset of the fill keys
FillDocs ==
  {Root @@ [columns |-> List(<<w>>), rows |-> List(<<h>>)] @@ FillOf(S) :
     w \in 1..MaxSize, h \in 1..2, S \in SUBSET Range(FillKeys)}

\* gratings of constant and swept half-period; the sine and cosine phases
\* stay whole quarter cycles and the colours differ by an even amount
WavePeriods == {<<1>>, <<2>>, <<1, 1>>, <<2, 2>>}
SquarePeriods == WavePeriods \cup {<<3>>, <<1, 2>>}

WaveKeys == {"hsine", "vsine", "hcosine", "vcosine"}
SquareKeys == {"hsquare", "vsquare"}
GratingColours == {<<Num(0), Num(100)>>, <<List(<<40, 0, 20>>), Num(30)>>}

GratingDoc(w, h, key, per, c) ==
  Root @@ [columns |-> List(<<w>>), rows |-> List(<<h>>)]
       @@ [k \in {key} |-> Grating(per, c[1], c[2])]

GratingDocs ==
  {GratingDoc(w, h, key, per, c) :
     w \in 1..(MaxSize + 1), h \in 1..(MaxSize + 1),
     key \in WaveKeys, per \in WavePeriods, c \in GratingColours}
  \cup
  {GratingDoc(w, h, key, per, c) :
     w \in 1..(MaxSize + 1), h \in 1..(MaxSize + 1),
     key \in SquareKeys, per \in SquarePeriods, c \in GratingColours}

\* a root that declares its cells and, possibly, its total width and height
Declared(key, totals) == {Absent} \cup {[k \in {key} |-> Num(t)] : t \in totals}

SizeDocs ==
  {Root @@ [columns |-> List(cs), rows |-> List(rs), color |-> Num(10)]
        @@ wd @@ hg @@ bo @@ sp :
     cs \in {<<1>>, <<1, 2>>}, rs \in {<<2>>, <<1, 1>>},
     wd \in Declared("width", 1..(2 * MaxSize)), hg \in Declared("height", 2..3),
     bo \in {Absent, [border |-> Num(1), bordercolor |-> Num(5)],
             [border |-> List(<<0, 1>>)]},
     sp \in {Absent, [spacing |-> Num(1)]}}

\* a root grid of two children where root and children carry an overlay:
\* children without a grid, with a grid and no children, with a grid and
\* children
LayerKid ==
  {[bare |-> Num(50)],
   [color |-> Num(60), image |-> Picture(1, 1, 3, 255)],
   [columns |-> List(<<1, 1>>), color |-> Num(61), bordercolor |-> Num(6),
    image |-> Picture(2, 1, 3, 255)],
   [columns |-> List(<<1, 1>>), hramp |-> <<Num(0), Num(30)>>,
    patches |-> <<[bare |-> Num(51)], [bare |-> Num(52)]>>,
    image |-> Picture(1, 2, 4, 255)]}

LayerDocs ==
  {Root @@ [columns |-> List(<<2, 2>>), rows |-> List(<<2>>), patches |-> <<a, b>>]
        @@ bo @@ fi @@ ov :
     a \in LayerKid, b \in LayerKid,
     bo \in {Absent, [border |-> Num(1), bordercolor |-> Num(5), spacing |-> Num(1)]},
     fi \in {Absent, [color |-> Num(20)]},
     ov \in {Absent, [image |-> Picture(1, 1, 4, 255)]}}

\* a row filled with a horizontal ramp, of every width from 2 on, and a red
\* cell beside a ramp from black to white
RampColours == {<<0, 45>>, <<45, 0>>, <<0, 255>>}

RampPair ==
  Root @@ [columns |-> List(<<4, 4>>), rows |-> List(<<1>>),
           patches |-> <<[color |-> List(<<255, 0, 0>>)],
                         [hramp |-> <<List(<<0, 0, 0>>), List(<<255, 255, 255>>)>>]>>]

RampDocs ==
  {Root @@ [columns |-> List(<<w>>), rows |-> List(<<1>>),
            hramp |-> <<Num(c[1]), Num(c[2])>>] :
     w \in 2..MaxRamp, c \in RampColours}
  \cup {RampPair}

\* descriptors that inherit the grid of their parent, placed in the root or
\* in a nested grid that fits its cell or exceeds it
InheritLeaf ==
  {pl @@ gr @@ ex @@ [patches |-> <<[bare |-> Num(50)], [bare |-> Num(51)]>>] :
     pl \in {Absent, [cell |-> <<1, 1, 1, 2>>], [left |-> 1]},
     gr \in {[columns |-> ParentStr], [width |-> ParentStr, rows |-> ParentStr],
             [columns |-> ParentStr, height |-> ParentStr]},
     ex \in {Absent, [spacing |-> Num(2)], [border |-> Num(1)]}}

InheritMid ==
  {[columns |-> List(cs), patches |-> <<leaf>>] @@ sp :
     cs \in {<<1, 1>>, <<2, 2>>}, sp \in {Absent, [spacing |-> Num(1)]},
     leaf \in InheritLeaf}

InheritDocs ==
  {Root @@ [columns |-> List(<<3, 2>>), rows |-> List(<<2>>), patches |-> <<kid>>]
        @@ sp :
     kid \in InheritLeaf \cup InheritMid, sp \in {Absent, [spacing |-> Num(1)]}}

\* a root with an overlay of every small size, opaque or transparent
OverlayDocs ==
  {[depth |-> b, columns |-> List(<<wh[1]>>), rows |-> List(<<wh[2]>>),
    color |-> Num(10), image |-> Picture(sw, sh, ca[1], ca[2])] :
     b \in {8, 10}, wh \in {<<6, 4>>, <<3, 2>>},
     sw \in 1..MaxSize, sh \in 1..MaxSize,
     ca \in {<<3, 255>>, <<4, 255>>, <<4, 0>>}}

Docs ==
  AutoDocs \cup PlaceDocs \cup NestDocs \cup FillDocs \cup GratingDocs
  \cup SizeDocs \cup LayerDocs \cup RampDocs \cup InheritDocs \cup OverlayDocs

(***************************************************************************)
(* The state machine: a document is loaded, then render_tpat runs once.    *)
(***************************************************************************)
NoSample == [val |-> IntVal(0), bits |-> 8, orig |-> 0, obits |-> 8, n |-> 0]

Init ==
  /\ tpat \in Docs
  /\ pc = "loaded"
  /\ image = <<>>
  /\ log = <<>>
  /\ error = "none"
  /\ rejected = FALSE
  /\ cv = NoSample

RenderTpat ==
  /\ pc = "loaded"
  /\ \E r \in {render_tpat(tpat)} :
       /\ pc' = r.pc
       /\ image' = r.image
       /\ log' = r.log
       /\ error' = r.error
       /\ rejected' = r.rejected
  /\ UNCHANGED <<tpat, cv>>

Next == RenderTpat

Spec == Init /\ [][Next]_vars

(***************************************************************************)
(* Reading the log.                                                        *)
(***************************************************************************)
Events(kind) == {i \in 1..Len(log) : log[i].kind = kind}

IsPrefix(a, b) == Len(a) <= Len(b) /\ SubSeq(b, 1, Len(a)) = a

\* the descriptor at a node path of the document
RECURSIVE DescAt(_, _)
DescAt(tp, path) ==
  IF path = <<>> THEN tp ELSE DescAt(Children(tp)[path[1]], Tail(path))

ParentOf(node) == SubSeq(node, 1, Len(node) - 1)
Last(node) == node[Len(node)]

RECURSIVE SumSeq(_)
SumSeq(s) == IF s = <<>> THEN 0 ELSE s[1] + SumSeq(Tail(s))

PrefixSum(w, n) == SumSeq(SubSeq(w, 1, n))

\* the pixel range of the cells left..left+span-1 along one axis
RangeStart(w, s, left) == PrefixSum(w, left) + left * s
RangeEnd(w, s, left, span) == PrefixSum(w, left + span) + (left + span - 1) * s

InGrid(left, span, n) == left >= 0 /\ span >= 1 /\ left + span <= n

(***************************************************************************)
(* C1: a child at cell `left` spanning `span` cells gets exactly the pixel *)
(* range [sum(w[0..left-1]) + left*s, sum(w[0..left+span-1]) +             *)
(* (left+span-1)*s) of the inner view, on both axes.  This is the      *)
(* property as the specification states it; it fails for a nested grid     *)
(* wider or taller than its view.                                          *)
(***************************************************************************)
ExactAxis(lo, hi, base, w, sp, left, span) ==
  InGrid(left, span, Len(w)) =>
    (lo = base + RangeStart(w, sp, left) /\ hi = base + RangeEnd(w, sp, left, span))

NonNeg(w, sp) == sp >= 0 /\ \A k \in 1..Len(w) : w[k] >= 0

ClippedAxis(lo, hi, base, len, w, sp, left, span) ==
  (InGrid(left, span, Len(w)) /\ NonNeg(w, sp)) =>
    /\ lo = base + Min(RangeStart(w, sp, left), len)
    /\ hi = base + Min(RangeEnd(w, sp, left, span), len)
    /\ (SumSeq(w) + (Len(w) - 1) * sp <= len) =>
         (lo = base + RangeStart(w, sp, left)
          /\ hi = base + RangeEnd(w, sp, left, span))

PlacementKeys == {"left", "top", "right", "bottom", "cell"}

AutoPlaced(p) == Has(p, "bare") \/ DOMAIN p \cap PlacementKeys = {}

\* the children 1..k of the parent of a node are all placed automatically
AutoUpTo(node) ==
  LET kids == Children(DescAt(tpat, ParentOf(node)))
  IN  \A j \in 1..Last(node) : AutoPlaced(kids[j])

AutoCell(k, C) == <<k % C, k \div C, 1, 1>>

C2_AutoPlacement ==
  /\ \A i \in Events("child") :
       LET C == Len(log[i].grid.widths)
       IN  (C >= 1 /\ AutoUpTo(log[i].node)) =>
             log[i].cell = AutoCell(Last(log[i].node) - 1, C)
  /\ \A i \in Events("done") :
       LET c == CHOOSE j \in Events("child") : log[j].node = log[i].node
           C == Len(log[c].grid.widths)
       IN  (C >= 1 /\ AutoUpTo(log[i].node)) =>
             log[i].cell = AutoCell(Last(log[i].node), C)

\* five automatic children of a 3-column grid: the fifth is at column 1, row 1
C2_Witness ==
  /\ pc = "returned"
  /\ \E i \in Events("child") :
       /\ log[i].node = <<5>>
       /\ Len(log[i].grid.widths) = 3
       /\ AutoUpTo(<<5>>)
       /\ log[i].cell = <<1, 1, 1, 1>>

(***************************************************************************)
(* C3: the root buffer is sum(columns) + 2*hborder + (columns-1)*hspacing  *)
(* wide and sum(rows) + 2*vborder + (rows-1)*vspacing high.  When the root *)
(* gives both 'width' and 'columns', or both 'height' and 'rows', and the  *)
(* declared total differs from that extent, render_tpat raises ValueError  *)
(* with no buffer allocated and nothing drawn; otherwise the buffer has    *)
(* exactly that size.                                                      *)
(***************************************************************************)
RootExtent(sizes, border, spacing) ==
  SumSeq(sizes) + 2 * border + (Len(sizes) - 1) * spacing

RootWidth ==
  RootExtent(tpat.columns.v, border_settings(tpat).hborder,
             spacing_settings(tpat, None, None).hspacing)

RootHeight ==
  RootExtent(tpat.rows.v, border_settings(tpat).vborder,
             spacing_settings(tpat, None, None).vspacing)

Disagrees ==
  \/ Has(tpat, "width") /\ tpat.width # Num(RootWidth)
  \/ Has(tpat, "height") /\ tpat.height # Num(RootHeight)

C3_RootSize ==
  pc # "loaded" =>
    IF Disagrees
      THEN pc = "raised" /\ error = "ValueError" /\ image = <<>> /\ log = <<>>
      ELSE DOMAIN image = (0..(RootHeight - 1)) \X (0..(RootWidth - 1))

\* a bordered, spaced root whose declared width is not its extent was refused
C3_Witness ==
  /\ pc = "raised"
  /\ Has(tpat, "width") /\ Has(tpat, "border") /\ Has(tpat, "spacing")
  /\ Len(tpat.columns.v) = 2
  /\ tpat.width # Num(RootWidth)
  /\ ~Has(tpat, "height")

(***************************************************************************)
(* C4: the draw of a child, a bare colour or a recursive draw_patch call   *)
(* with all its borders, fill, spacing, descendants and overlay, leaves    *)
(* every pixel of the buffer outside the child's rectangle as it was when  *)
(* the child was started, whether the call returns or raises.              *)
(***************************************************************************)
\* the buffer when the child started at log entry i has returned, or the
\* buffer the exception left behind
AfterChild(i) ==
  LET done == {j \in Events("done") : j > i /\ log[j].node = log[i].node}
  IN  IF done = {} THEN image ELSE log[CHOOSE j \in done : TRUE].img

C4_ViewConfinement ==
  \A i \in Events("child") :
    \A p \in DOMAIN image :
      ~InView(p, log[i].rect) => AfterChild(i)[p] = log[i].img[p]

\* a nested descriptor has drawn border, children and overlay and returned
C4_Witness ==
  \E i \in Events("child") : \E j \in Events("done") :
    /\ log[j].node = log[i].node /\ j > i
    /\ log[j].img # log[i].img
    /\ \E p \in DOMAIN image : ~InView(p, log[i].rect)
    /\ \A kind \in {"border", "fill", "bare", "overlay"} :
         \E k \in Events(kind) : i < k /\ k < j

(***************************************************************************)
(* C5: in a render that returns, the rectangles handed to two distinct     *)
(* children of one grid never overlap.  The specification states this; the *)
(* code draws overlapping explicit placements without complaint.           *)
(***************************************************************************)
Siblings(i, j) ==
  /\ i # j
  /\ ParentOf(log[i].node) = ParentOf(log[j].node)

C5_SiblingsDisjoint ==
  pc = "returned" =>
    \A i \in Events("child") : \A j \in Events("child") :
      Siblings(i, j) => ~Overlap(log[i].rect, log[j].rect)

\* two children both placed at cell [1, 1] were drawn on the same pixels
C5_Witness ==
  /\ pc = "returned"
  /\ tpat.columns = List(<<2, 1>>) /\ ~Has(tpat, "spacing")
  /\ Len(tpat.patches) = 2
  /\ \A k \in 1..2 : tpat.patches[k] = [color |-> Num(70), cell |-> <<1, 1>>]
  /\ \E i \in Events("child") : \E j \in Events("child") :
       /\ Siblings(i, j)
       /\ log[i].rect = log[j].rect
       /\ ~IsEmpty(log[i].rect)

(***************************************************************************)
(* C6: within one draw_patch invocation the writes are ordered border      *)
(* strips, fill, spacing overpaint, children in document order, overlay;   *)
(* the overlay is composited at most once, exactly once in a render that   *)
(* returns, and nothing of the invocation is logged after it.              *)
(***************************************************************************)
OwnKinds == {"border", "fill", "spacing", "overlay_image", "overlay"}

\* log entry i is a write of the invocation at `node` itself
Own(node, i) == log[i].node = node /\ log[i].kind \in OwnKinds

\* log entry i belongs to a child of `node` or below
Below(node, i) ==
  Len(log[i].node) > Len(node) /\ IsPrefix(node, log[i].node)

Stage(node, i) ==
  IF Below(node, i) THEN 4
  ELSE IF log[i].kind = "border" THEN 1
  ELSE IF log[i].kind = "fill" THEN 2
  ELSE IF log[i].kind = "spacing" THEN 3
  ELSE 5

\* the nodes draw_patch was invoked on
Invoked ==
  {<<>>} \cup {log[i].node : i \in {j \in Events("child") :
                                     ~Has(DescAt(tpat, log[j].node), "bare")}}

OverlaysOf(node, kind) == {i \in Events(kind) : log[i].node = node}

C6_WriteOrder ==
  pc # "loaded" =>
    \A node \in Invoked :
      /\ \A i \in 1..Len(log) : \A j \in (i + 1)..Len(log) :
           ((Own(node, i) \/ Below(node, i)) /\ (Own(node, j) \/ Below(node, j))) =>
             /\ Stage(node, i) <= Stage(node, j)
             /\ (Below(node, i) /\ Below(node, j)) =>
                  log[i].node[Len(node) + 1] <= log[j].node[Len(node) + 1]
      /\ Cardinality(OverlaysOf(node, "overlay_image")) <= 1
      /\ Cardinality(OverlaysOf(node, "overlay")) <= 1
      /\ (pc = "returned" /\ Has(DescAt(tpat, node), "image")) =>
           Cardinality(OverlaysOf(node, "overlay")) = 1
      /\ (pc = "returned" /\ ~Has(DescAt(tpat, node), "image")) =>
           OverlaysOf(node, "overlay_image") = {}

\* one render in which an overlay was composited on each of the three return
\* paths: without a grid, with a grid and no children, with children after
\* border, fill and spacing
C6_Witness ==
  /\ pc = "returned"
  /\ Has(tpat, "patches") /\ OverlaysOf(<<>>, "overlay") # {}
  /\ \A kind \in {"border", "fill", "spacing"} : OverlaysOf(<<>>, kind) # {}
  /\ \E i \in Events("overlay") :
       /\ HasGrid(DescAt(tpat, log[i].node))
       /\ ~Has(DescAt(tpat, log[i].node), "patches")
  /\ \E i \in Events("overlay") : ~HasGrid(DescAt(tpat, log[i].node))

(***************************************************************************)
(* C7: of the fill keys present on a descriptor only the highest in the    *)
(* order color > hramp > vramp > hsine > vsine > hcosine > vcosine >       *)
(* hsquare > vsquare is painted: the render of a document is the render of *)
(* the same document without its lower-priority fill keys, every           *)
(* invocation paints at most one fill, and none without a fill key.        *)
(***************************************************************************)
FillsOf(tp) == {k \in 1..Len(FillKeys) : Has(tp, FillKeys[k])}

\* the document without the fill keys below its first one
TopFillOnly(tp) ==
  LET first == CHOOSE k \in FillsOf(tp) : \A j \in FillsOf(tp) : k <= j
      keep == {key \in DOMAIN tp : key \notin Range(FillKeys) \/ key = FillKeys[first]}
  IN  [key \in keep |-> tp[key]]

SameRender(r) ==
  r.pc = pc /\ r.image = image /\ r.error = error /\ r.log = log

C7_FillPrecedence ==
  pc # "loaded" =>
    /\ Cardinality(FillsOf(tpat)) > 1 => SameRender(render_tpat(TopFillOnly(tpat)))
    /\ \A node \in Invoked :
         /\ Cardinality(OverlaysOf(node, "fill")) <= 1
         /\ FillsOf(DescAt(tpat, node)) = {} => OverlaysOf(node, "fill") = {}

\* a horizontal ramp was painted although lower-priority fills are present
C7_Witness ==
  /\ pc = "returned"
  /\ ~Has(tpat, "color") /\ Has(tpat, "hramp")
  /\ Cardinality(FillsOf(tpat)) = Len(FillKeys) - 1
  /\ tpat.columns = List(<<3>>)
  /\ image[<<0, 2>>] = <<30, 30, 30>>
  /\ OverlaysOf(<<>>, "fill") # {}

(***************************************************************************)
(* C8: a grating whose half-periods are all 1 paints hard alternation,     *)
(* whatever the waveform: along the grating axis pixel i is color1 for     *)
(* even i and color2 for odd i.  The specification states this; the code   *)
(* forces the square wave for the 3-element spec only, and a sine sweep    *)
(* from 1 to 1 paints the midpoint of the two colours.                     *)
(***************************************************************************)
HorizontalKeys == {"hsine", "hcosine", "hsquare"}

HalfPeriodOne(g) == \A k \in 1..Len(g.periods) : g.periods[k] = 1

Alternates(key, g) ==
  \A p \in DOMAIN image :
    LET i == IF key \in HorizontalKeys THEN p[2] ELSE p[1]
    IN  image[p] = IF i % 2 = 0 THEN as_color(g.col1) ELSE as_color(g.col2)

C8_HardAlternation ==
  pc = "returned" =>
    \A key \in WaveKeys \cup SquareKeys :
      (/\ Has(tpat, key)
       /\ FillsOf(tpat) = {k \in 1..Len(FillKeys) : FillKeys[k] = key}
       /\ ~Has(tpat, "patches") /\ ~Has(tpat, "image")
       /\ HalfPeriodOne(tpat[key])) => Alternates(key, tpat[key])

\* the sine sweep [1, 1, 0, 100] on a row of three pixels painted 50 everywhere
C8_Witness ==
  /\ pc = "returned"
  /\ Has(tpat, "hsine") /\ tpat.hsine = Grating(<<1, 1>>, Num(0), Num(100))
  /\ tpat.columns = List(<<3>>) /\ tpat.rows = List(<<1>>)
  /\ \A x \in 0..2 : image[<<0, x>>] = <<50, 50, 50>>

(***************************************************************************)
(* convert_bits on its own: a sample of every integer depth is converted   *)
(* to 32 bits and back, or to its own depth.                               *)
(***************************************************************************)
Depths == {8, 10, 12, 16}

InitBits ==
  /\ tpat = Root
  /\ pc = "convert"
  /\ image = <<>>
  /\ log = <<>>
  /\ error = "none"
  /\ rejected = FALSE
  /\ \E b \in Depths : \E x \in 0..(2^b - 1) :
       cv = [val |-> IntVal(x), bits |-> b, orig |-> x, obits |-> b, n |-> 0]

\* convert_bits(x, b, 32)
ConvertToFloat ==
  /\ pc = "convert"
  /\ cv' = [cv EXCEPT !.val = convert_bits(cv.val, cv.bits, 32), !.bits = 32,
                      !.n = cv.n + 1]
  /\ pc' = "float"
  /\ UNCHANGED <<tpat, image, log, error, rejected>>

\* convert_bits(y, 32, b)
ConvertFromFloat ==
  /\ pc = "float"
  /\ cv' = [cv EXCEPT !.val = convert_bits(cv.val, 32, cv.obits), !.bits = cv.obits,
                      !.n = cv.n + 1]
  /\ pc' = "integer"
  /\ UNCHANGED <<tpat, image, log, error, rejected>>

\* convert_bits(x, b, b)
ConvertSame ==
  /\ pc = "convert"
  /\ cv' = [cv EXCEPT !.val = convert_bits(cv.val, cv.bits, cv.bits),
                      !.n = cv.n + 1]
  /\ pc' = "same"
  /\ UNCHANGED <<tpat, image, log, error, rejected>>

NextBits == ConvertToFloat \/ ConvertFromFloat \/ ConvertSame

SpecBits == InitBits /\ [][NextBits]_vars

(***************************************************************************)
(* C9: convert_bits(convert_bits(x, b, 32), 32, b) = x for every depth b   *)
(* in {8, 10, 12, 16} and every x in 0..2^b - 1, and convert_bits(x, b, b) *)
(* is x.                                                                   *)
(***************************************************************************)
C9_RoundTrip ==
  /\ pc = "integer" => (cv.val = IntVal(cv.orig) /\ cv.bits = cv.obits)
  /\ pc = "same" => cv.val = IntVal(cv.orig)
  /\ pc = "float" => cv.val.k = "f32"

\* the 16-bit sample 32768 went through float32 and came back
C9_Witness ==
  /\ pc = "integer"
  /\ cv.obits = 16 /\ cv.orig = 32768 /\ cv.n = 2
  /\ cv.val = IntVal(32768)

(***************************************************************************)
(* C10: an overlay whose source is wider or taller than the inner view of  *)
(* its node makes overlay_image raise ValueError; nothing is drawn after   *)
(* it and render_tpat raises instead of returning a buffer, although the   *)
(* writes made before it stay in the buffer.  A render that returns has    *)
(* met no such overlay at any node.                                        *)
(***************************************************************************)
Oversize(wid, hgt, view) == wid > view.x1 - view.x0 \/ hgt > view.y1 - view.y0

\* the view draw_patch was given for a node, and its inner view
ViewOf(node) ==
  IF node = <<>>
    THEN [y0 |-> 0, y1 |-> RootHeight, x0 |-> 0, x1 |-> RootWidth]
    ELSE log[CHOOSE i \in Events("child") : log[i].node = node].rect

InnerOf(node) == InnerView(ViewOf(node), border_settings(DescAt(tpat, node)))

HasOversize(node) ==
  /\ Has(DescAt(tpat, node), "image")
  /\ Oversize(DescAt(tpat, node).image.wid, DescAt(tpat, node).image.hgt,
              InnerOf(node))

C10_OverlayRejection ==
  /\ \A i \in Events("overlay_image") :
       Oversize(log[i].cell[1], log[i].cell[2], log[i].rect) =>
         /\ pc = "raised" /\ error = "ValueError" /\ rejected
         /\ i = Len(log)
  /\ pc = "returned" => \A node \in Invoked : ~HasOversize(node)
  /\ rejected => pc = "raised"

\* a nested node's overlay was refused after its parent and the node itself
\* had painted
C10_Witness ==
  /\ pc = "raised" /\ error = "ValueError" /\ rejected
  /\ \E i \in Events("overlay_image") :
       /\ Len(log[i].node) = 1
       /\ Oversize(log[i].cell[1], log[i].cell[2], log[i].rect)
       /\ log[i].cell[1] <= Width(log[i].rect)
       /\ \E j \in Events("fill") : j < i /\ log[j].node = log[i].node
  /\ \E p \in DOMAIN image : image[p] # <<0, 0, 0>>

(***************************************************************************)
(* C11: a source of sw x sh pixels composited on a view of W x H pixels,   *)
(* sw <= W and sh <= H, is written to exactly the sw x sh rectangle whose  *)
(* corner is at column (W - sw) div 2, row (H - sh) div 2 of the view; the *)
(* rectangle lies inside the view, every pixel of the buffer outside it is *)
(* unchanged, and an opaque source replaces every pixel inside it.         *)
(***************************************************************************)
\* the buffer after the write at log entry i: the overlay is the last write
\* of its invocation, so the next entry, if any, notes the return of the node
AfterOverlay(i) == IF i = Len(log) THEN image ELSE log[i + 1].img

Centred(view, sw, sh) ==
  [y0 |-> view.y0 + (Height(view) - sh) \div 2,
   y1 |-> view.y0 + (Height(view) - sh) \div 2 + sh,
   x0 |-> view.x0 + (Width(view) - sw) \div 2,
   x1 |-> view.x0 + (Width(view) - sw) \div 2 + sw]

Opaque(comp) == comp.ch = 3 \/ comp.alpha = 255

C11_OverlayCentering ==
  \A i \in Events("overlay") :
    LET call == log[i - 1]
        comp == DescAt(tpat, log[i].node).image
    IN  /\ call.kind = "overlay_image" /\ call.node = log[i].node
        /\ call.cell = <<comp.wid, comp.hgt>>
        /\ comp.wid <= Width(call.rect) /\ comp.hgt <= Height(call.rect)
        /\ log[i].rect = Centred(call.rect, comp.wid, comp.hgt)
        /\ SubView(log[i].rect, call.rect)
        /\ i < Len(log) => (log[i + 1].kind = "done" /\ log[i + 1].node = log[i].node)
        /\ \A p \in DOMAIN image :
             IF InView(p, log[i].rect)
               THEN Opaque(comp) =>
                      \A c \in 1..3 :
                        AfterOverlay(i)[p][c] * (2^8 - 1)
                          \in ((comp.val * (2^tpat.depth - 1) - (2^8 - 1) \div 2)
                               ..(comp.val * (2^tpat.depth - 1) + (2^8 - 1) \div 2))
               ELSE AfterOverlay(i)[p] = call.img[p]

\* a 2 x 2 source on the 6 x 4 root landed at column 2, row 1
C11_Witness ==
  /\ pc = "returned"
  /\ \E i \in Events("overlay") :
       /\ log[i].node = <<>>
       /\ Width(log[i - 1].rect) = 6 /\ Height(log[i - 1].rect) = 4
       /\ log[i - 1].cell = <<2, 2>>
       /\ log[i].rect = [y0 |-> 1, y1 |-> 3, x0 |-> 2, x1 |-> 4]
       /\ image[<<1, 2>>] # image[<<0, 0>>]

(***************************************************************************)
(* C12: a horizontal ramp over a view W >= 2 pixels wide sets column x,    *)
(* per channel, to floor(c1 + (x / (W - 1)) * (c2 - c1) + 1/2), so column  *)
(* 0 is color1 and column W - 1 is color2.  The specification states this  *)
(* of the exact quotient; the code computes in binary64, where a value     *)
(* that is exactly half-way may come out just below and be rounded down.   *)
(***************************************************************************)
\* floor(c1 + (x / n) * (c2 - c1) + 1/2)
RoundHalfUp(c1, c2, x, n) == (2 * (c1 * n + x * (c2 - c1)) + n) \div (2 * n)

\* the root is one cell filled by a horizontal ramp and nothing else
RampOnly ==
  /\ FillsOf(tpat) = {k \in 1..Len(FillKeys) : FillKeys[k] = "hramp"}
  /\ ~Has(tpat, "patches") /\ ~Has(tpat, "image") /\ ~Has(tpat, "border")

C12_RampValues ==
  (pc = "returned" /\ RampOnly) =>
    \A p \in DOMAIN image : \A c \in 1..3 :
      image[p][c] = RoundHalfUp(as_color(tpat.hramp[1])[c], as_color(tpat.hramp[2])[c],
                                p[2], RootWidth - 1)

\* the ramp from 0 to 45 over 11 pixels: column 7 is 31, not 32
C12_Witness ==
  /\ pc = "returned"
  /\ tpat.columns = List(<<11>>) /\ RampOnly
  /\ tpat.hramp = <<Num(0), Num(45)>>
  /\ RoundHalfUp(0, 45, 7, 10) = 32
  /\ image[<<0, 7>>] = <<31, 31, 31>>
  /\ image[<<0, 0>>] = <<0, 0, 0>> /\ image[<<0, 10>>] = <<45, 45, 45>>

\* the red cell beside the ramp from black to white renders as the
\* specification says
C12_RampPair ==
  (pc = "returned" /\ tpat = RampPair) =>
    /\ DOMAIN image = {0} \X (0..7)
    /\ \A x \in 0..3 : image[<<0, x>>] = <<255, 0, 0>>
    /\ \A x \in 4..7 : image[<<0, x>>] = <<85 * (x - 4), 85 * (x - 4), 85 * (x - 4)>>

C12_RampPairRendered == pc = "returned" /\ tpat = RampPair

(***************************************************************************)
(* C13: a nested descriptor placed at the parent cells [left, left + wid)  *)
(* that declares its columns as 'parent', without border and without its   *)
(* own spacing, resolves its columns to the parent's sizes of the spanned  *)
(* cells and its spacing to the parent's; its grid extent is the width of  *)
(* the view it was given and its column boundaries are those of the        *)
(* parent, pixel for pixel.  The same for rows.  The specification states  *)
(* this of every nesting; it fails below a grid that exceeds its own view. *)
(***************************************************************************)
Inherits(d, sizes, total) ==
  /\ IF Has(d, sizes) THEN d[sizes] = ParentStr
     ELSE Has(d, total) /\ d[total] = ParentStr
  /\ ~Has(d, "border") /\ ~Has(d, "spacing")

\* the placement of the node in its parent's grid
PlacedAt(node) == log[CHOOSE j \in Events("child") : log[j].node = node]

GridExtent(w, sp) == SumSeq(w) + (Len(w) - 1) * sp

\* the nested offsets off, counted from base, are the parent's offsets poff
\* of the cells from `left` on, counted from pbase
Aligned(base, off, pbase, poff, left, span) ==
  \A k \in 1..(2 * span) : base + off[k] = pbase + poff[2 * left + k]

InheritedAxis(w, sp, off, base, len, pw, psp, poff, pbase, left, span) ==
  /\ w = SubSeq(pw, left + 1, left + span)
  /\ sp = psp
  /\ GridExtent(w, sp) = len
  /\ Aligned(base, off, pbase, poff, left, span)

Fits(w, sp, len) == NonNeg(w, sp) /\ GridExtent(w, sp) <= len

InheritedAxisThatFits(w, sp, off, base, len, pw, psp, poff, pbase, plen, left, span) ==
  /\ w = SubSeq(pw, left + 1, left + span)
  /\ sp = psp
  /\ Fits(pw, psp, plen) =>
       (GridExtent(w, sp) = len /\ Aligned(base, off, pbase, poff, left, span))

AlongWidth == {"hramp", "hsine", "hcosine", "hsquare"}
AlongHeight == {"vramp", "vsine", "vcosine", "vsquare"}

\* the fill key of highest priority on a descriptor, "" without one
TopFill(d) ==
  IF FillsOf(d) = {} THEN ""
  ELSE FillKeys[CHOOSE k \in FillsOf(d) : \A j \in FillsOf(d) : k <= j]

\* the length of the node's inner view along the axis of its fill
FillLength(node) ==
  IF TopFill(DescAt(tpat, node)) \in AlongWidth
    THEN InnerOf(node).x1 - InnerOf(node).x0
    ELSE InnerOf(node).y1 - InnerOf(node).y0

\* nothing of the node but its border strips is in the log, and nothing of
\* any other node after them
StoppedAtFill(node) ==
  /\ \A i \in 1..Len(log) :
       (log[i].node = node /\ log[i].kind \in OwnKinds) => log[i].kind = "border"
  /\ \A i \in 1..Len(log) : ~Below(node, i)
  /\ Len(log) > 0 => (log[Len(log)].node = node
                      /\ log[Len(log)].kind \in {"border", "child"})

C14_FillAxisLength ==
  pc # "loaded" =>
    \A node \in Invoked :
      TopFill(DescAt(tpat, node)) \in AlongWidth \cup AlongHeight =>
        /\ FillLength(node) = 1 =>
             /\ pc = "raised" /\ error = "ZeroDivisionError"
             /\ StoppedAtFill(node)
        /\ FillLength(node) >= 2 =>
             \E i \in OverlaysOf(node, "fill") : log[i].rect = InnerOf(node)

\* a root one pixel wide with a horizontal ramp: the render raised and the
\* buffer is untouched
C14_Witness ==
  /\ pc = "raised" /\ error = "ZeroDivisionError"
  /\ TopFill(tpat) = "hramp"
  /\ tpat.columns = List(<<1>>) /\ tpat.rows = List(<<2>>)
  /\ log = <<>>
  /\ \A p \in DOMAIN image : image[p] = <<0, 0, 0>>

====
